---------------------------- MODULE Spec2Model ----------------------------
(***************************************************************************)
(* A model of httpstatus (src/main.rs): the registry of HTTP status codes  *)
(* built by get_status_codes(), the two renderers print_table() and        *)
(* print_json(), and main()'s choice between them.                         *)
(*                                                                         *)
(* Text is modelled as sequences of one-character strings, so that the     *)
(* conversions of the program (u16 to decimal text, string escaping, JSON  *)
(* serialization) are computed character by character.                     *)
(***************************************************************************)
EXTENDS Integers, Sequences, FiniteSets

(***************************************************************************)
(* Bounds of the model.                                                    *)
(***************************************************************************)
\* The most command-line arguments that follow the program name.
MaxArgs == 2

\* Lookups probe the codes 0..MaxProbe.
MaxProbe == 999

(***************************************************************************)
(* get_status_codes(): the map.insert(code, reason) statements, in the     *)
(* order of the source (the source line of each is in its comment).        *)
(***************************************************************************)
STATUS_TABLE == <<
    <<100, <<"C","o","n","t","i","n","u","e">>>>,  \* 12: Continue
    <<101, <<"S","w","i","t","c","h","i","n","g"," ","P","r","o","t","o","c","o","l","s">>>>,  \* 13: Switching Protocols
    <<102, <<"P","r","o","c","e","s","s","i","n","g">>>>,  \* 14: Processing
    <<103, <<"E","a","r","l","y"," ","H","i","n","t","s">>>>,  \* 15: Early Hints
    <<200, <<"O","K">>>>,  \* 18: OK
    <<201, <<"C","r","e","a","t","e","d">>>>,  \* 19: Created
    <<202, <<"A","c","c","e","p","t","e","d">>>>,  \* 20: Accepted
    <<203, <<"N","o","n","-","A","u","t","h","o","r","i","t","a","t","i","v","e"," ","I","n","f","o","r","m","a","t","i","o","n">>>>,  \* 21: Non-Authoritative Information
    <<204, <<"N","o"," ","C","o","n","t","e","n","t">>>>,  \* 22: No Content
    <<205, <<"R","e","s","e","t"," ","C","o","n","t","e","n","t">>>>,  \* 23: Reset Content
    <<206, <<"P","a","r","t","i","a","l"," ","C","o","n","t","e","n","t">>>>,  \* 24: Partial Content
    <<207, <<"M","u","l","t","i","-","S","t","a","t","u","s">>>>,  \* 25: Multi-Status
    <<208, <<"A","l","r","e","a","d","y"," ","R","e","p","o","r","t","e","d">>>>,  \* 26: Already Reported
    <<226, <<"I","M"," ","U","s","e","d">>>>,  \* 27: IM Used
    <<300, <<"M","u","l","t","i","p","l","e"," ","C","h","o","i","c","e","s">>>>,  \* 30: Multiple Choices
    <<301, <<"M","o","v","e","d"," ","P","e","r","m","a","n","e","n","t","l","y">>>>,  \* 31: Moved Permanently
    <<302, <<"F","o","u","n","d">>>>,  \* 32: Found
    <<303, <<"S","e","e"," ","O","t","h","e","r">>>>,  \* 33: See Other
    <<304, <<"N","o","t"," ","M","o","d","i","f","i","e","d">>>>,  \* 34: Not Modified
    <<305, <<"U","s","e"," ","P","r","o","x","y">>>>,  \* 35: Use Proxy
    <<306, <<"S","w","i","t","c","h"," ","P","r","o","x","y">>>>,  \* 36: Switch Proxy
    <<307, <<"T","e","m","p","o","r","a","r","y"," ","R","e","d","i","r","e","c","t">>>>,  \* 37: Temporary Redirect
    <<308, <<"P","e","r","m","a","n","e","n","t"," ","R","e","d","i","r","e","c","t">>>>,  \* 38: Permanent Redirect
    <<400, <<"B","a","d"," ","R","e","q","u","e","s","t">>>>,  \* 41: Bad Request
    <<401, <<"U","n","a","u","t","h","o","r","i","z","e","d">>>>,  \* 42: Unauthorized
    <<402, <<"P","a","y","m","e","n","t"," ","R","e","q","u","i","r","e","d">>>>,  \* 43: Payment Required
    <<403, <<"F","o","r","b","i","d","d","e","n">>>>,  \* 44: Forbidden
    <<404, <<"N","o","t"," ","F","o","u","n","d">>>>,  \* 45: Not Found
    <<405, <<"M","e","t","h","o","d"," ","N","o","t"," ","A","l","l","o","w","e","d">>>>,  \* 46: Method Not Allowed
    <<406, <<"N","o","t"," ","A","c","c","e","p","t","a","b","l","e">>>>,  \* 47: Not Acceptable
    <<407, <<"P","r","o","x","y"," ","A","u","t","h","e","n","t","i","c","a","t","i","o","n"," ","R","e","q","u","i","r","e","d">>>>,  \* 48: Proxy Authentication Required
    <<408, <<"R","e","q","u","e","s","t"," ","T","i","m","e","o","u","t">>>>,  \* 49: Request Timeout
    <<409, <<"C","o","n","f","l","i","c","t">>>>,  \* 50: Conflict
    <<410, <<"G","o","n","e">>>>,  \* 51: Gone
    <<411, <<"L","e","n","g","t","h"," ","R","e","q","u","i","r","e","d">>>>,  \* 52: Length Required
    <<412, <<"P","r","e","c","o","n","d","i","t","i","o","n"," ","F","a","i","l","e","d">>>>,  \* 53: Precondition Failed
    <<413, <<"P","a","y","l","o","a","d"," ","T","o","o"," ","L","a","r","g","e">>>>,  \* 54: Payload Too Large
    <<414, <<"U","R","I"," ","T","o","o"," ","L","o","n","g">>>>,  \* 55: URI Too Long
    <<415, <<"U","n","s","u","p","p","o","r","t","e","d"," ","M","e","d","i","a"," ","T","y","p","e">>>>,  \* 56: Unsupported Media Type
    <<416, <<"R","a","n","g","e"," ","N","o","t"," ","S","a","t","i","s","f","i","a","b","l","e">>>>,  \* 57: Range Not Satisfiable
    <<417, <<"E","x","p","e","c","t","a","t","i","o","n"," ","F","a","i","l","e","d">>>>,  \* 58: Expectation Failed
    <<418, <<"I","'","m"," ","a"," ","t","e","a","p","o","t">>>>,  \* 59: I'm a teapot
    <<421, <<"M","i","s","d","i","r","e","c","t","e","d"," ","R","e","q","u","e","s","t">>>>,  \* 60: Misdirected Request
    <<422, <<"U","n","p","r","o","c","e","s","s","a","b","l","e"," ","E","n","t","i","t","y">>>>,  \* 61: Unprocessable Entity
    <<423, <<"L","o","c","k","e","d">>>>,  \* 62: Locked
    <<424, <<"F","a","i","l","e","d"," ","D","e","p","e","n","d","e","n","c","y">>>>,  \* 63: Failed Dependency
    <<425, <<"T","o","o"," ","E","a","r","l","y">>>>,  \* 64: Too Early
    <<426, <<"U","p","g","r","a","d","e"," ","R","e","q","u","i","r","e","d">>>>,  \* 65: Upgrade Required
    <<428, <<"P","r","e","c","o","n","d","i","t","i","o","n"," ","R","e","q","u","i","r","e","d">>>>,  \* 66: Precondition Required
    <<429, <<"T","o","o"," ","M","a","n","y"," ","R","e","q","u","e","s","t","s">>>>,  \* 67: Too Many Requests
    <<431, <<"R","e","q","u","e","s","t"," ","H","e","a","d","e","r"," ","F","i","e","l","d","s"," ","T","o","o"," ","L","a","r","g","e">>>>,  \* 68: Request Header Fields Too Large
    <<451, <<"U","n","a","v","a","i","l","a","b","l","e"," ","F","o","r"," ","L","e","g","a","l"," ","R","e","a","s","o","n","s">>>>,  \* 69: Unavailable For Legal Reasons
    <<500, <<"I","n","t","e","r","n","a","l"," ","S","e","r","v","e","r"," ","E","r","r","o","r">>>>,  \* 72: Internal Server Error
    <<501, <<"N","o","t"," ","I","m","p","l","e","m","e","n","t","e","d">>>>,  \* 73: Not Implemented
    <<502, <<"B","a","d"," ","G","a","t","e","w","a","y">>>>,  \* 74: Bad Gateway
    <<503, <<"S","e","r","v","i","c","e"," ","U","n","a","v","a","i","l","a","b","l","e">>>>,  \* 75: Service Unavailable
    <<504, <<"G","a","t","e","w","a","y"," ","T","i","m","e","o","u","t">>>>,  \* 76: Gateway Timeout
    <<505, <<"H","T","T","P"," ","V","e","r","s","i","o","n"," ","N","o","t"," ","S","u","p","p","o","r","t","e","d">>>>,  \* 77: HTTP Version Not Supported
    <<506, <<"V","a","r","i","a","n","t"," ","A","l","s","o"," ","N","e","g","o","t","i","a","t","e","s">>>>,  \* 78: Variant Also Negotiates
    <<507, <<"I","n","s","u","f","f","i","c","i","e","n","t"," ","S","t","o","r","a","g","e">>>>,  \* 79: Insufficient Storage
    <<508, <<"L","o","o","p"," ","D","e","t","e","c","t","e","d">>>>,  \* 80: Loop Detected
    <<510, <<"N","o","t"," ","E","x","t","e","n","d","e","d">>>>,  \* 81: Not Extended
    <<511, <<"N","e","t","w","o","r","k"," ","A","u","t","h","e","n","t","i","c","a","t","i","o","n"," ","R","e","q","u","i","r","e","d">>>>  \* 82: Network Authentication Required
    >>

(***************************************************************************)
(* BTreeMap<u16, &'static str>: a sequence of <<key, value>> entries kept  *)
(* in ascending key order, which is the order iteration yields.            *)
(***************************************************************************)
BTreeNew == << >>

\* The place of key k in m: the first entry in lo..hi whose key is not below
\* k, or hi + 1 when there is none.
RECURSIVE SearchIn(_, _, _, _)
SearchIn(m, k, lo, hi) ==
    IF lo > hi THEN lo
    ELSE LET mid == (lo + hi) \div 2 IN
         IF m[mid][1] < k THEN SearchIn(m, k, mid + 1, hi)
         ELSE SearchIn(m, k, lo, mid - 1)

Search(m, k) == SearchIn(m, k, 1, Len(m))

\* A faulty insert: the entry is put in front, whatever its key.
BTreeInsertFront(m, k, v) == << <<k, v>> >> \o m

\* BTreeMap::insert: the value of an equal key is replaced, a new key is put
\* at its place in the order.
BTreeInsert(m, k, v) ==
    LET i == Search(m, k) IN
    IF i <= Len(m) /\ m[i][1] = k
    THEN [m EXCEPT ![i] = <<k, v>>]
    ELSE SubSeq(m, 1, i - 1) \o << <<k, v>> >> \o SubSeq(m, i, Len(m))

\* Option<&V>: None, or Some(v).
None == [some |-> FALSE, val |-> << >>]
Some(v) == [some |-> TRUE, val |-> v]

\* A faulty get: for an absent key, the entry of the nearest lower key.
BTreeGetFloor(m, k) ==
    LET i == Search(m, k) IN
    IF i <= Len(m) /\ m[i][1] = k THEN Some(m[i][2])
    ELSE IF i > 1 THEN Some(m[i - 1][2]) ELSE None

\* BTreeMap::get.
BTreeGet(m, k) ==
    LET i == Search(m, k) IN
    IF i <= Len(m) /\ m[i][1] = k THEN Some(m[i][2]) ELSE None

\* BTreeMap::contains_key.
BTreeContainsKey(m, k) == BTreeGet(m, k).some

\* BTreeMap::len.
BTreeLen(m) == Len(m)

\* BTreeMap::keys, as a set.
BTreeKeys(m) == {m[i][1] : i \in 1..Len(m)}

(***************************************************************************)
(* Text conversions.                                                       *)
(***************************************************************************)
DigitChars == <<"0", "1", "2", "3", "4", "5", "6", "7", "8", "9">>

\* A faulty conversion: the digits least significant first.
RECURSIVE ToDecimalReversed(_)
ToDecimalReversed(n) ==
    IF n < 10 THEN <<DigitChars[n + 1]>>
    ELSE <<DigitChars[(n % 10) + 1]>> \o ToDecimalReversed(n \div 10)

\* u16::to_string, and the integer map key serde_json writes: the decimal
\* digits of n, most significant first, no leading zero.
RECURSIVE ToDecimal(_)
ToDecimal(n) ==
    IF n < 10 THEN <<DigitChars[n + 1]>>
    ELSE Append(ToDecimal(n \div 10), DigitChars[(n % 10) + 1])

\* serde_json's escaping of one character of a string.
EscapeChar(c) ==
    CASE c = "\"" -> <<"\\", "\"">>
      [] c = "\\" -> <<"\\", "\\">>
      [] c = "\n" -> <<"\\", "n">>
      [] c = "\r" -> <<"\\", "r">>
      [] c = "\t" -> <<"\\", "t">>
      [] OTHER -> <<c>>

\* The concatenation of the sequences ss[lo], ..., ss[hi].
RECURSIVE Concat(_, _, _)
Concat(ss, lo, hi) ==
    IF lo > hi THEN << >>
    ELSE IF lo = hi THEN ss[lo]
    ELSE LET mid == (lo + hi) \div 2 IN
         Concat(ss, lo, mid) \o Concat(ss, mid + 1, hi)

\* A JSON string: the escaped characters between double quotes.
JsonString(s) ==
    <<"\"">> \o Concat([i \in 1..Len(s) |-> EscapeChar(s[i])], 1, Len(s))
    \o <<"\"">>

\* The members serde_json writes for the map, in iteration order: the key is
\* the code's decimal text (JSON object keys are strings), the value the
\* reason phrase.
Members(m) == [i \in 1..Len(m) |-> <<ToDecimal(m[i][1]), m[i][2]>>]

\* serde_json's compact form of an object: "key":"value" members between
\* braces, a comma before each member but the first.
CompactObject(ms) ==
    <<"{">>
    \o Concat([i \in 1..Len(ms) |->
                  (IF i > 1 THEN <<",">> ELSE << >>)
                  \o JsonString(ms[i][1]) \o <<":">> \o JsonString(ms[i][2])],
              1, Len(ms))
    \o <<"}">>

\* The indented form of an object (serde_json::to_string_pretty, and jq .):
\* one "key": "value" member per line, indented by two spaces.
PrettyObject(ms) ==
    IF Len(ms) = 0 THEN <<"{", "}">>
    ELSE <<"{">>
         \o Concat([i \in 1..Len(ms) |->
                       (IF i > 1 THEN <<",", "\n">> ELSE <<"\n">>)
                       \o <<" ", " ">> \o JsonString(ms[i][1]) \o <<":", " ">>
                       \o JsonString(ms[i][2])],
                   1, Len(ms))
         \o <<"\n", "}">>

\* Result<String, serde_json::Error>.
Ok(v) == [ok |-> TRUE, val |-> v]
Err == [ok |-> FALSE, val |-> << >>]

\* serde_json::to_string(status_codes): integer keys and string values
\* always serialize.
to_string(m) == Ok(CompactObject(Members(m)))

\* serde_json::to_string_pretty(status_codes).
to_string_pretty(m) == Ok(PrettyObject(Members(m)))

\* Result::unwrap_or.
unwrap_or(r, default) == IF r.ok THEN r.val ELSE default

(***************************************************************************)
(* Reading a JSON object of string members back from text, one character   *)
(* at a time: what jq does with its input, and what a caller parsing the   *)
(* output does.                                                            *)
(***************************************************************************)
Whitespace == {" ", "\n", "\r", "\t"}

UnescapeChar(c) ==
    CASE c = "n" -> "\n"
      [] c = "r" -> "\r"
      [] c = "t" -> "\t"
      [] OTHER -> c

\* The reader's state: what it expects next (mode), the string being read
\* (cur), the key of the member being read, and the members read so far.
\* Modes: "open" before the brace, "first" after it, "key" and "value" inside
\* a string ("keyesc", "valueesc" after a backslash), "colon" after a key,
\* "valuestart" after the colon, "next" after a value, "keystart" after a
\* comma, "end" after the closing brace, "fail".
ReaderStart == [mode |-> "open", cur |-> << >>, key |-> << >>, members |-> << >>]

Fail(st) == [st EXCEPT !.mode = "fail"]

ReadChar(st, c) ==
    CASE st.mode = "fail" -> st
      [] st.mode = "key" ->
             IF c = "\"" THEN [st EXCEPT !.mode = "colon", !.key = st.cur, !.cur = << >>]
             ELSE IF c = "\\" THEN [st EXCEPT !.mode = "keyesc"]
             ELSE [st EXCEPT !.cur = Append(st.cur, c)]
      [] st.mode = "keyesc" ->
             [st EXCEPT !.mode = "key", !.cur = Append(st.cur, UnescapeChar(c))]
      [] st.mode = "value" ->
             IF c = "\""
             THEN [st EXCEPT !.mode = "next", !.cur = << >>,
                             !.members = Append(st.members, <<st.key, st.cur>>)]
             ELSE IF c = "\\" THEN [st EXCEPT !.mode = "valueesc"]
             ELSE [st EXCEPT !.cur = Append(st.cur, c)]
      [] st.mode = "valueesc" ->
             [st EXCEPT !.mode = "value", !.cur = Append(st.cur, UnescapeChar(c))]
      [] c \in Whitespace -> st
      [] st.mode = "open" -> IF c = "{" THEN [st EXCEPT !.mode = "first"] ELSE Fail(st)
      [] st.mode = "first" ->
             IF c = "\"" THEN [st EXCEPT !.mode = "key"]
             ELSE IF c = "}" THEN [st EXCEPT !.mode = "end"]
             ELSE Fail(st)
      [] st.mode = "keystart" -> IF c = "\"" THEN [st EXCEPT !.mode = "key"] ELSE Fail(st)
      [] st.mode = "colon" -> IF c = ":" THEN [st EXCEPT !.mode = "valuestart"] ELSE Fail(st)
      [] st.mode = "valuestart" -> IF c = "\"" THEN [st EXCEPT !.mode = "value"] ELSE Fail(st)
      [] st.mode = "next" ->
             IF c = "," THEN [st EXCEPT !.mode = "keystart"]
             ELSE IF c = "}" THEN [st EXCEPT !.mode = "end"]
             ELSE Fail(st)
      [] OTHER -> Fail(st)

\* The reader's state after the characters t[lo], ..., t[hi], from state st;
\* once it has failed the rest is not read.
RECURSIVE ReadRange(_, _, _, _)
ReadRange(t, lo, hi, st) ==
    IF lo > hi THEN st
    ELSE IF lo = hi THEN ReadChar(st, t[lo])
    ELSE LET mid == (lo + hi) \div 2
             half == ReadRange(t, lo, mid, st)
         IN
         IF half.mode = "fail" THEN half ELSE ReadRange(t, mid + 1, hi, half)

\* The members of the JSON object that text t holds, or a failure.
ParseObject(t) ==
    LET st == ReadRange(t, 1, Len(t), ReaderStart) IN
    IF st.mode = "end" THEN [ok |-> TRUE, val |-> st.members]
    ELSE [ok |-> FALSE, val |-> << >>]

(***************************************************************************)
(* The program's state.                                                    *)
(***************************************************************************)
VARIABLES
    pc,            \* where the program is: "get_status_codes", "main",
                   \* "spawn", "write", "wait" (inside print_json), "done"
    args,          \* env::args(): args[1] is the program's name
    status_codes,  \* the BTreeMap under construction, then main's registry
    inserted,      \* how many map.insert statements have run
    json,          \* print_json's local json: None before it is bound
    child_stdin,   \* what the jq child has been given on its standard input
    stdout,        \* standard output: one element per document written
    stderr,        \* error output: one element per diagnostic
    calls,         \* the renderers main has called, in order
    lookup         \* the lookup by code made on the finished registry

vars == <<pc, args, status_codes, inserted, json, child_stdin, stdout, stderr,
          calls, lookup>>

\* A document on standard output: a text (println! of a String, or what jq
\* prints), or a table (println! of a comfy_table Table), given by its lines
\* of cells, the header first. Borders, padding and colours are not modelled.
TextDoc(t) == [text |-> t, table |-> << >>]
TableDoc(lines) == [text |-> << >>, table |-> lines]

Program == "httpstatus"
ArgValues == {"--json", "-j", "-json", "--help"}
ArgVectors ==
    {<<Program>> \o a : a \in UNION {[1..n -> ArgValues] : n \in 0..MaxArgs}}

NoLookup == [asked |-> FALSE, code |-> 0, result |-> None]

Init ==
    /\ pc = "get_status_codes"
    /\ args \in ArgVectors
    /\ status_codes = BTreeNew
    /\ inserted = 0
    /\ json = None
    /\ child_stdin = << >>
    /\ stdout = << >>
    /\ stderr = << >>
    /\ calls = << >>
    /\ lookup = NoLookup

(***************************************************************************)
(* get_status_codes()                                                      *)
(***************************************************************************)
\* Faulty tables: the 306 line inserts 307 again; 226 typed as 326; another
\* phrase for 302; an empty phrase for 103.
StatementDuplicates307(i) ==
    IF STATUS_TABLE[i][1] = 306 THEN <<307, STATUS_TABLE[i][2]>> ELSE STATUS_TABLE[i]

Statement326(i) ==
    IF STATUS_TABLE[i][1] = 226 THEN <<326, STATUS_TABLE[i][2]>> ELSE STATUS_TABLE[i]

StatementMovedTemporarily(i) ==
    IF STATUS_TABLE[i][1] = 302
    THEN <<302, <<"M","o","v","e","d"," ","T","e","m","p","o","r","a","r","i","l","y">>>>
    ELSE STATUS_TABLE[i]

StatementEmptyReason(i) ==
    IF STATUS_TABLE[i][1] = 103 THEN <<103, << >>>> ELSE STATUS_TABLE[i]

\* The code and the reason phrase of the i-th map.insert statement.
Statement(i) == STATUS_TABLE[i]

\* One map.insert statement; after the last one the map is returned to main.
Insert ==
    /\ pc = "get_status_codes"
    /\ inserted < Len(STATUS_TABLE)
    /\ LET s == Statement(inserted + 1) IN
       status_codes' = BTreeInsert(status_codes, s[1], s[2])
    /\ inserted' = inserted + 1
    /\ pc' = IF inserted + 1 = Len(STATUS_TABLE) THEN "main" ELSE pc
    /\ UNCHANGED <<args, json, child_stdin, stdout, stderr, calls, lookup>>

(***************************************************************************)
(* print_table()                                                           *)
(***************************************************************************)
Header == << <<"C","o","d","e">>,
             <<"D","e","s","c","r","i","p","t","i","o","n">> >>

\* A faulty loop: the rows in descending order.
TableRowsReversed(m) ==
    [i \in 1..Len(m) |-> <<ToDecimal(m[Len(m) + 1 - i][1]), m[Len(m) + 1 - i][2]>>]

\* The rows added in the loop over the map: the code's decimal text and the
\* description.
TableRows(m) == [i \in 1..Len(m) |-> <<ToDecimal(m[i][1]), m[i][2]>>]

print_table ==
    /\ calls' = Append(calls, "print_table")
    /\ stdout' = Append(stdout, TableDoc(<<Header>> \o TableRows(status_codes)))
    /\ pc' = "done"
    /\ UNCHANGED <<json, child_stdin, stderr>>

(***************************************************************************)
(* print_json()                                                            *)
(***************************************************************************)
\* The call and the serialization: on an error a diagnostic and return.
print_json ==
    /\ calls' = Append(calls, "print_json")
    /\ LET r == to_string(status_codes) IN
       IF r.ok
       THEN /\ json' = Some(r.val)
            /\ pc' = "spawn"
            /\ UNCHANGED stderr
       ELSE /\ stderr' = Append(stderr, "Failed to serialize JSON")
            /\ pc' = "done"
            /\ UNCHANGED json
    /\ UNCHANGED <<child_stdin, stdout>>

\* Command::new("jq").arg(".").stdin(Stdio::piped()).spawn(): the child
\* starts, or it cannot be started and the indented form is printed
\* in-process (the compact form if that fails).
Spawn ==
    /\ pc = "spawn"
    /\ \/ /\ pc' = "write"
          /\ UNCHANGED stdout
       \/ /\ stdout' = Append(stdout,
                 TextDoc(unwrap_or(to_string_pretty(status_codes), json.val)))
          /\ pc' = "done"
    /\ UNCHANGED <<args, status_codes, inserted, json, child_stdin, stderr,
                   calls, lookup>>

\* How much of the text a write_all may have delivered when it returns: all
\* of it, or less when the child has closed its end.
WriteLengths(t) == {0, Len(t) \div 2, Len(t)}

\* stdin.write_all(json.as_bytes()), its result dropped; the pipe is then
\* closed.
Write ==
    /\ pc = "write"
    /\ \E n \in WriteLengths(json.val) : child_stdin' = SubSeq(json.val, 1, n)
    /\ pc' = "wait"
    /\ UNCHANGED <<args, status_codes, inserted, json, stdout, stderr, calls,
                   lookup>>

\* process.wait(), its result dropped: by then jq has printed the indented
\* form of a well-formed input on the inherited standard output, or it has
\* ended without printing a document.
Wait ==
    /\ pc = "wait"
    /\ \/ /\ ParseObject(child_stdin).ok
          /\ stdout' = Append(stdout,
                 TextDoc(PrettyObject(ParseObject(child_stdin).val)))
       \/ UNCHANGED stdout
    /\ pc' = "done"
    /\ UNCHANGED <<args, status_codes, inserted, json, child_stdin, stderr,
                   calls, lookup>>

(***************************************************************************)
(* main()                                                                  *)
(***************************************************************************)
\* A faulty test: the flag at any position.
WantsJsonAnywhere(a) ==
    \E i \in 2..Len(a) : a[i] = "--json" \/ a[i] = "-j"

\* args.len() > 1 && (args[1] == "--json" || args[1] == "-j"), the indices
\* of the source counted from 0.
WantsJson(a) == Len(a) > 1 /\ (a[2] = "--json" \/ a[2] = "-j")

Main ==
    /\ pc = "main"
    /\ IF WantsJson(args) THEN print_json ELSE print_table
    /\ UNCHANGED <<args, status_codes, inserted, lookup>>

Next == Insert \/ Main \/ Spawn \/ Write \/ Wait

Spec == Init /\ [][Next]_vars

(***************************************************************************)
(* Lookups by code on the registry get_status_codes() returned, as the     *)
(* tests make them.                                                        *)
(***************************************************************************)
Lookup ==
    /\ pc = "main"
    /\ ~lookup.asked
    /\ \E code \in 0..MaxProbe :
           lookup' = [asked |-> TRUE, code |-> code,
                      result |-> BTreeGet(status_codes, code)]
    /\ UNCHANGED <<pc, args, status_codes, inserted, json, child_stdin, stdout,
                   stderr, calls>>

InitLookup == Init /\ args = <<Program>>

NextLookup == Insert \/ Lookup

SpecLookup == InitLookup /\ [][NextLookup]_vars

(***************************************************************************)
(* The properties checked.                                                 *)
(***************************************************************************)
\* get_status_codes() has returned: main holds the finished registry.
RegistryBuilt == pc # "get_status_codes"

\* The codes the data contract enumerates, 306 among them.
EnumeratedCodes ==
    (100..103) \cup (200..208) \cup {226} \cup (300..308)
    \cup (400..418) \cup (421..426) \cup {428, 429, 431, 451}
    \cup (500..508) \cup {510, 511}

\* The number of entries of m whose code is in lo..hi.
CountIn(m, lo, hi) ==
    Cardinality({i \in 1..Len(m) : lo <= m[i][1] /\ m[i][1] <= hi})

Digits == {DigitChars[i] : i \in 1..Len(DigitChars)}

\* s is the decimal text of a number: digits only, no leading zero.
IsDecimal(s) ==
    /\ Len(s) > 0
    /\ \A i \in 1..Len(s) : s[i] \in Digits
    /\ Len(s) > 1 => s[1] # "0"

DigitValue(c) == CHOOSE d \in 0..9 : DigitChars[d + 1] = c

\* The number a decimal text denotes.
RECURSIVE ParseDecimalFrom(_, _, _)
ParseDecimalFrom(s, i, acc) ==
    IF i > Len(s) THEN acc
    ELSE ParseDecimalFrom(s, i + 1, 10 * acc + DigitValue(s[i]))

ParseDecimal(s) == ParseDecimalFrom(s, 1, 0)

\* The <<code, reason>> pairs of a registry, and of members read from JSON.
EntrySet(m) == {<<m[i][1], m[i][2]>> : i \in 1..Len(m)}
MemberSet(ms) == {<<ParseDecimal(ms[i][1]), ms[i][2]>> : i \in 1..Len(ms)}

\* Text t is a JSON object that reads back as exactly the registry m: one
\* member per entry, its key the code in decimal, its value the reason.
ReadsBackAs(t, m) ==
    LET p == ParseObject(t) IN
    /\ p.ok
    /\ Len(p.val) = Len(m)
    /\ \A i \in 1..Len(p.val) : IsDecimal(p.val[i][1])
    /\ MemberSet(p.val) = EntrySet(m)

\* C1: the key set of the registry get_status_codes() returns is exactly the
\* set of enumerated codes (306 included): none missing, none extra.
C1_KeysAreTheEnumeratedCodes ==
    RegistryBuilt => BTreeKeys(status_codes) = EnumeratedCodes

C1_Witness ==
    /\ pc = "main"
    /\ BTreeContainsKey(status_codes, 306)
    /\ BTreeContainsKey(status_codes, 511)

\* C2: the registry has exactly 63 entries, 4 in 1xx, 10 in 2xx, 9 in 3xx,
\* 29 in 4xx and 11 in 5xx, and the five classes account for all of them.
C2_CountAndClasses ==
    RegistryBuilt =>
        /\ BTreeLen(status_codes) = 63
        /\ CountIn(status_codes, 100, 199) = 4
        /\ CountIn(status_codes, 200, 299) = 10
        /\ CountIn(status_codes, 300, 399) = 9
        /\ CountIn(status_codes, 400, 499) = 29
        /\ CountIn(status_codes, 500, 599) = 11
        /\ CountIn(status_codes, 100, 599) = BTreeLen(status_codes)

C2_Witness ==
    /\ RegistryBuilt
    /\ inserted = Len(STATUS_TABLE)
    /\ CountIn(status_codes, 300, 399) = 9

\* C3: iteration yields the codes in strictly ascending order: each entry's
\* code is below the next entry's, so none is repeated.
C3_StrictlyAscending ==
    \A i \in 1..(Len(status_codes) - 1) :
        status_codes[i][1] < status_codes[i + 1][1]

C3_Witness ==
    /\ RegistryBuilt
    /\ Len(status_codes) > 1
    /\ status_codes[1][1] = 100
    /\ status_codes[Len(status_codes)][1] = 511

\* C4: a lookup of 200 returns "OK", of 302 "Found", of 404 "Not Found" and
\* of 418 "I'm a teapot".
C4_FixedPoints ==
    lookup.asked =>
        /\ lookup.code = 200 => lookup.result = Some(<<"O","K">>)
        /\ lookup.code = 302 => lookup.result = Some(<<"F","o","u","n","d">>)
        /\ lookup.code = 404 =>
               lookup.result = Some(<<"N","o","t"," ","F","o","u","n","d">>)
        /\ lookup.code = 418 =>
               lookup.result =
                   Some(<<"I","'","m"," ","a"," ","t","e","a","p","o","t">>)

C4_Witness ==
    /\ lookup.asked
    /\ lookup.code = 302
    /\ lookup.result.some

\* C5: every entry has a code in 100..599 and a reason phrase that is not
\* empty.
C5_EntriesWellFormed ==
    \A i \in 1..Len(status_codes) :
        /\ status_codes[i][1] \in 100..599
        /\ Len(status_codes[i][2]) > 0

C5_Witness ==
    /\ RegistryBuilt
    /\ BTreeLen(status_codes) = Len(STATUS_TABLE)
    /\ \E i \in 1..Len(status_codes) : Len(status_codes[i][2]) = 2

\* C6: a lookup of a code that is not a key of the registry, 999 and 666 in
\* particular, returns None.
C6_AbsentCodeNotFound ==
    lookup.asked =>
        /\ lookup.code \notin BTreeKeys(status_codes) => lookup.result = None
        /\ lookup.code \in {999, 666} => lookup.result = None

C6_Witness ==
    /\ lookup.asked
    /\ lookup.code = 666
    /\ ~lookup.result.some

\* C7: the JSON text serialized from the registry begins with { and ends
\* with }, and reads back as exactly the registry: one member per code, its
\* key the code's decimal text, its value that code's reason, no other key.
C7_JsonRoundTrip ==
    json.some =>
        /\ Len(json.val) >= 2
        /\ json.val[1] = "{"
        /\ json.val[Len(json.val)] = "}"
        /\ ReadsBackAs(json.val, status_codes)

C7_Witness ==
    /\ json.some
    /\ Len(ParseObject(json.val).val) = 63

\* C8: the table is the header Code, Description and then one row per
\* entry, in the registry's order, holding the code's decimal text and the
\* reason phrase.
C8_TableRows ==
    (pc = "done" /\ calls = <<"print_table">>) =>
        /\ Len(stdout) = 1
        /\ LET t == stdout[1].table IN
           /\ Len(t) = 1 + Len(status_codes)
           /\ t[1] = << <<"C","o","d","e">>,
                        <<"D","e","s","c","r","i","p","t","i","o","n">> >>
           /\ \A i \in 1..Len(status_codes) :
                  /\ Len(t[i + 1]) = 2
                  /\ IsDecimal(t[i + 1][1])
                  /\ ParseDecimal(t[i + 1][1]) = status_codes[i][1]
                  /\ t[i + 1][2] = status_codes[i][2]
           /\ {ParseDecimal(t[i][1]) : i \in 2..Len(t)} = BTreeKeys(status_codes)

C8_Witness ==
    /\ pc = "done"
    /\ calls = <<"print_table">>
    /\ Len(stdout) = 1
    /\ Len(stdout[1].table) = 64

\* The first command-line argument is exactly --json or -j.
FirstArgumentIsJsonFlag == Len(args) >= 2 /\ args[2] \in {"--json", "-j"}

\* C9: the registry is built first and then exactly one renderer runs: the
\* JSON renderer if and only if the first argument is --json or -j, the
\* table renderer otherwise, whatever the later arguments are.
C9_OneRenderByFirstArgument ==
    /\ pc \in {"get_status_codes", "main"} => calls = << >> /\ stdout = << >>
    /\ pc \notin {"get_status_codes", "main"} =>
           /\ Len(calls) = 1
           /\ inserted = Len(STATUS_TABLE)
           /\ calls[1] = (IF FirstArgumentIsJsonFlag THEN "print_json"
                          ELSE "print_table")
           /\ \A i \in 1..Len(stdout) :
                  (stdout[i].table # << >>) <=> ~FirstArgumentIsJsonFlag

C9_Witness ==
    /\ pc = "done"
    /\ Len(args) = 3
    /\ args[2] = "--help"
    /\ args[3] = "-j"
    /\ calls = <<"print_table">>

\* Standard output holds a text that reads back as the registry.
JsonEmitted ==
    \E i \in 1..Len(stdout) : ReadsBackAs(stdout[i].text, status_codes)

\* C10: in JSON mode, whenever the serialization succeeded the JSON mapping
\* is on standard output when the render ends, whatever became of jq; only a
\* failed serialization ends it with a diagnostic and no JSON.
C10_JsonEmittedOnEveryPath ==
    (pc = "done" /\ calls = <<"print_json">>) =>
        /\ json.some => JsonEmitted
        /\ ~json.some => (stderr # << >> /\ stdout = << >>)

=============================================================================
